---- MODULE Spec2Model ----
(***************************************************************************)
(* Model of the label analysis pipeline of cellarium_backend               *)
(* (winemanager/services/label_analyzer.py) and of the region catalog it   *)
(* reads.  One invocation of analyze_wine_label is a process whose         *)
(* position is pc; the region catalog is changed by other requests         *)
(* (RegionViewSet) while the invocation runs.                              *)
(*                                                                         *)
(* Python values are records [t, s, n]: t is the Python type, s the        *)
(* characters of a str (a sequence of one-character strings), n the value  *)
(* of an int.  A str is a sequence so that lower(), the fuzzy ratio and    *)
(* the comparison "rose" /= "rosé" are computed and not assumed.           *)
(***************************************************************************)
EXTENDS Integers, Sequences, FiniteSets, TLC

VARIABLES pc, image, img_size, api_key, upstream, ai_response, calls,
          client_built, regions, next_region_id, resolver, outcome, response,
          wines, stores, bottles, next_bottle_id, today, reply, other,
          inflight, moments

\* The locals of one analyze-label request.
request_vars == <<pc, image, img_size, upstream, ai_response, calls,
                  client_built, resolver, outcome, response>>

\* The label analysis: the locals of one analyze-label request and of a
\* second one running at the same time, the settings and the region catalog.
label_vars == <<request_vars, other, api_key, regions, next_region_id, moments>>

\* The cellar: the Wine, Store and Bottle tables, the current local date and
\* the response to the last bottle request.
cellar_vars == <<wines, stores, bottles, next_bottle_id, today, reply, inflight>>

vars == <<label_vars, cellar_vars>>

(* ------------------------------------------------------------------ *)
(* Bounds and program constants                                        *)
(* ------------------------------------------------------------------ *)

\* Number of regions ever created in the catalog (ids are never reused).
MaxRegions == 2

\* Number of bottles ever created (ids are never reused).
MaxBottles == 2

\* The last day of the calendar; days are numbered from 1.
MaxDay == 2

\* Number of changes of the region catalog between the two queries of one
\* resolver call.
MaxChanges == 2

\* getattr(settings, 'OPENAI_MAX_IMAGE_SIZE', 1024)
OPENAI_MAX_IMAGE_SIZE == 1024

\* score = min(100, score + 10)
COUNTRY_BOOST == 10
MAX_SCORE == 100

\* if best_match and best_score >= 80
MATCH_THRESHOLD == 80

(* ------------------------------------------------------------------ *)
(* Python values                                                       *)
(* ------------------------------------------------------------------ *)

PyNone == [t |-> "NoneType", s |-> <<>>, n |-> 0]
PyStr(chars) == [t |-> "str", s |-> chars, n |-> 0]
PyInt(k) == [t |-> "int", s |-> <<>>, n |-> k]
PyList == [t |-> "list", s |-> <<>>, n |-> 0]

\* Python truth value: None, "", 0 and [] are false.
Truthy(v) ==
    CASE v.t = "NoneType" -> FALSE
      [] v.t = "str"      -> v.s # <<>>
      [] v.t = "int"      -> v.n # 0
      [] v.t = "list"     -> FALSE
      [] OTHER            -> TRUE

\* str.lower() on the characters the model uses.
LowerChar(c) ==
    CASE c = "A" -> "a"
      [] c = "B" -> "b"
      [] c = "C" -> "c"
      [] c = "D" -> "d"
      [] c = "E" -> "e"
      [] OTHER   -> c

Lower(chars) == [i \in 1..Len(chars) |-> LowerChar(chars[i])]

(* ------------------------------------------------------------------ *)
(* Exceptions                                                          *)
(* ------------------------------------------------------------------ *)

\* An exception is its class and its message (the parts of an f-string).
Exc(type, msg) == [type |-> type, msg |-> msg]
NoExc == Exc("none", <<>>)

\* class LabelAnalysisError(Exception)
LabelAnalysisError(msg) == Exc("LabelAnalysisError", msg)

\* The class hierarchy the except clauses test against.
ExcParent(type) ==
    CASE type = "RateLimitError"     -> "APIError"
      [] type = "APIConnectionError" -> "APIError"
      [] type = "APITimeoutError"    -> "APIConnectionError"
      [] type = "AuthenticationError" -> "APIError"
      [] type = "JSONDecodeError"    -> "ValueError"
      [] type = "Exception"          -> "BaseException"
      [] OTHER                       -> "Exception"

RECURSIVE IsInstance(_, _)
IsInstance(type, class) ==
    IF type = class THEN TRUE
    ELSE IF type = "BaseException" THEN FALSE
    ELSE IsInstance(ExcParent(type), class)

\* The errors the pipeline raises, by raise site.
InvalidImage == LabelAnalysisError(<<"Invalid image format. Supported formats: JPEG, PNG, WebP">>)
NotConfigured == LabelAnalysisError(<<"OpenAI API key not configured">>)
EmptyResponse == LabelAnalysisError(<<"Empty response from AI service">>)
UnparsableResponse == LabelAnalysisError(<<"Could not parse AI response">>)
UpstreamThrottled == LabelAnalysisError(<<"AI service rate limit exceeded. Please try again later.">>)
UpstreamUnavailable == LabelAnalysisError(<<"AI service temporarily unavailable">>)
UpstreamError == LabelAnalysisError(<<"AI service error occurred">>)
UnexpectedInferenceFailure(e) == LabelAnalysisError(<<"Unexpected error: ">> \o e.msg)

(* ------------------------------------------------------------------ *)
(* Image validation and normalisation                                  *)
(* ------------------------------------------------------------------ *)

\* An uploaded file: decodes = Image.open/verify/reopen succeed;
\* complete = the pixel data can be loaded (a truncated JPEG passes
\* verify() and fails on load); mode and size as PIL reports them.
Img(decodes, complete, mode, w, h) ==
    [decodes |-> decodes, complete |-> complete, mode |-> mode, w |-> w, h |-> h]

NoImage == Img(FALSE, FALSE, "", 0, 0)

Images ==
    { NoImage,
      Img(TRUE, FALSE, "RGB", 800, 600),
      Img(TRUE, TRUE, "RGB", 800, 600),
      Img(TRUE, TRUE, "RGBA", 1024, 1024),
      Img(TRUE, TRUE, "I;16", 800, 600),
      Img(TRUE, TRUE, "RGB", 2048, 1536),
      Img(TRUE, TRUE, "P", 1000, 3000),
      Img(TRUE, TRUE, "RGB", 3000, 1) }

\* The modes PIL's JPEG encoder writes.
JpegModes == {"1", "L", "RGB", "RGBX", "CMYK", "YCbCr"}

\* Faulty variant of ValidateImage: the file is not validated at all.
ValidateImage_Unchecked(img) == NoExc

\* The try block of analyze_wine_label: any exception of open/verify/reopen
\* becomes the invalid-image error.
ValidateImage(img) == IF img.decodes THEN NoExc ELSE InvalidImage

\* _resize_image: the new size; int() truncates the scaled side.
ResizeDims(w, h, max_size) ==
    IF w <= max_size /\ h <= max_size THEN <<w, h>>
    ELSE IF w > h THEN <<max_size, (h * max_size) \div w>>
    ELSE <<(w * max_size) \div h, max_size>>

\* _resize_image with what image.resize raises: it loads the pixel data
\* first and rejects a side of 0.
ResizeImage(img, max_size) ==
    LET size == ResizeDims(img.w, img.h, max_size) IN
    IF img.w <= max_size /\ img.h <= max_size
    THEN [exc |-> NoExc, size |-> size]
    ELSE IF ~img.complete
    THEN [exc |-> Exc("OSError", <<"image file is truncated">>), size |-> <<0, 0>>]
    ELSE IF size[1] <= 0 \/ size[2] <= 0
    THEN [exc |-> Exc("ValueError", <<"height and width must be > 0">>), size |-> <<0, 0>>]
    ELSE [exc |-> NoExc, size |-> size]

\* _image_to_base64: RGBA, P and LA are converted to RGB, then the image is
\* saved as JPEG; both load the pixel data.
ImageToBase64(img) ==
    LET mode == IF img.mode \in {"RGBA", "P", "LA"} THEN "RGB" ELSE img.mode IN
    IF ~img.complete THEN Exc("OSError", <<"image file is truncated">>)
    ELSE IF mode \notin JpegModes THEN Exc("OSError", <<"cannot write mode as JPEG">>)
    ELSE NoExc

(* ------------------------------------------------------------------ *)
(* The upstream model and its response                                 *)
(* ------------------------------------------------------------------ *)

\* A JSON value the model wrote: a dict with the keys the pipeline reads
\* (Absent = key not present), or a value that is no dict.
Absent == [t |-> "absent", s |-> <<>>, n |-> 0]

\* The "confidence" value of the response object: absent, null, or an object
\* with some of the seven keys.  A score is written in hundredths; Omitted
\* marks a key the object does not have.
ConfidenceFields ==
    {"name", "vintage", "wine_type", "country", "region", "grape_varieties",
     "alcohol_percentage"}
Omitted == 0 - 1
ConfidenceAbsent == [t |-> "absent", e |-> [k \in ConfidenceFields |-> Omitted]]
ConfidenceNull == [t |-> "NoneType", e |-> [k \in ConfidenceFields |-> Omitted]]
ConfidenceDict(keys, score) ==
    [t |-> "dict", e |-> [k \in ConfidenceFields |-> IF k \in keys THEN score ELSE Omitted]]

FieldsOf(wine_type, country, region, confidence, raw_text) ==
    [wine_type |-> wine_type, country |-> country, region |-> region,
     confidence |-> confidence, raw_text |-> raw_text]
Fields(wine_type, country, region) ==
    FieldsOf(wine_type, country, region, ConfidenceAbsent, Absent)
NoFields == Fields(Absent, Absent, Absent)
JsonDict(wine_type, country, region) ==
    [t |-> "dict", f |-> Fields(wine_type, country, region)]
JsonDictOf(wine_type, country, region, confidence, raw_text) ==
    [t |-> "dict", f |-> FieldsOf(wine_type, country, region, confidence, raw_text)]
JsonList == [t |-> "list", f |-> NoFields]
JsonNull == [t |-> "NoneType", f |-> NoFields]

\* dict.get(key): None for a missing key.
Get(d, key) == IF d.f[key] = Absent THEN PyNone ELSE d.f[key]

\* dict.get(key, default): the default for a missing key only.
GetOr(d, key, default) == IF d.f[key].t = "absent" THEN default ELSE d.f[key]

\* message.content is None or a string.  A string is a sequence of tokens:
\* "ws" whitespace, "fence" the three backticks, "json" the language tag,
\* "val" the text of one JSON value, "prose" any other text.
ContentNone == [isNone |-> TRUE, tokens |-> <<>>]
Content(tokens) == [isNone |-> FALSE, tokens |-> tokens]

RECURSIVE LStrip(_)
LStrip(tokens) ==
    IF tokens # <<>> /\ Head(tokens) = "ws" THEN LStrip(Tail(tokens)) ELSE tokens

RECURSIVE RStrip(_)
RStrip(tokens) ==
    IF tokens # <<>> /\ tokens[Len(tokens)] = "ws"
    THEN RStrip(SubSeq(tokens, 1, Len(tokens) - 1))
    ELSE tokens

\* str.strip()
Strip(tokens) == RStrip(LStrip(tokens))

StartsWith(tokens, prefix) ==
    Len(tokens) >= Len(prefix) /\ SubSeq(tokens, 1, Len(prefix)) = prefix

EndsWith(tokens, suffix) ==
    Len(tokens) >= Len(suffix)
    /\ SubSeq(tokens, Len(tokens) - Len(suffix) + 1, Len(tokens)) = suffix

DropFirst(tokens, k) == SubSeq(tokens, k + 1, Len(tokens))
DropLast(tokens, k) == SubSeq(tokens, 1, Len(tokens) - k)

\* Faulty variant of CleanContent: a closing fence is left in place.
CleanContent_KeepsClosingFence(tokens) ==
    LET c1 == Strip(tokens)
        c2 == IF StartsWith(c1, <<"fence", "json">>) THEN DropFirst(c1, 2) ELSE c1
        c3 == IF StartsWith(c2, <<"fence">>) THEN DropFirst(c2, 1) ELSE c2
    IN Strip(c3)

\* "Clean up response - remove markdown code blocks if present"
CleanContent(tokens) ==
    LET c1 == Strip(tokens)
        c2 == IF StartsWith(c1, <<"fence", "json">>) THEN DropFirst(c1, 2) ELSE c1
        c3 == IF StartsWith(c2, <<"fence">>) THEN DropFirst(c2, 1) ELSE c2
        c4 == IF EndsWith(c3, <<"fence">>) THEN DropLast(c3, 1) ELSE c3
    IN Strip(c4)

\* json.loads: one JSON value, whitespace around it allowed, nothing else.
JsonLoads(tokens, payload) ==
    IF Strip(tokens) = <<"val">>
    THEN [exc |-> NoExc, value |-> payload]
    ELSE [exc |-> Exc("JSONDecodeError", <<"Expecting value">>), value |-> JsonNull]

(* ------------------------------------------------------------------ *)
(* _call_openai_vision                                                 *)
(* ------------------------------------------------------------------ *)

\* What client.chat.completions.create does in one request: it raises
\* (raises names the exception class) or returns a response whose
\* message.content is content; payload is the value the "val" token denotes.
Upstream(raises, content, payload) ==
    [raises |-> raises, content |-> content, payload |-> payload]
NoUpstream == Upstream("none", ContentNone, JsonNull)

\* Faulty variant of HandleException: no clause for json.JSONDecodeError.
HandleException_NoJsonClause(e) ==
    IF IsInstance(e.type, "RateLimitError") THEN UpstreamThrottled
    ELSE IF IsInstance(e.type, "APIConnectionError") THEN UpstreamUnavailable
    ELSE IF IsInstance(e.type, "APIError") THEN UpstreamError
    ELSE IF IsInstance(e.type, "Exception") THEN UnexpectedInferenceFailure(e)
    ELSE e

\* Faulty variant of HandleException: the APIError clause comes before the
\* clauses of its subclasses.
HandleException_ApiErrorFirst(e) ==
    IF IsInstance(e.type, "JSONDecodeError") THEN UnparsableResponse
    ELSE IF IsInstance(e.type, "APIError") THEN UpstreamError
    ELSE IF IsInstance(e.type, "RateLimitError") THEN UpstreamThrottled
    ELSE IF IsInstance(e.type, "APIConnectionError") THEN UpstreamUnavailable
    ELSE IF IsInstance(e.type, "Exception") THEN UnexpectedInferenceFailure(e)
    ELSE e

\* The except clauses of _call_openai_vision, in source order.
HandleException(e) ==
    IF IsInstance(e.type, "JSONDecodeError") THEN UnparsableResponse
    ELSE IF IsInstance(e.type, "RateLimitError") THEN UpstreamThrottled
    ELSE IF IsInstance(e.type, "APIConnectionError") THEN UpstreamUnavailable
    ELSE IF IsInstance(e.type, "APIError") THEN UpstreamError
    ELSE IF IsInstance(e.type, "Exception") THEN UnexpectedInferenceFailure(e)
    ELSE e

\* The body of the try block after the request returned: the content check,
\* the clean-up and json.loads.  What it raises is raised inside the try.
ParseResponse(content, payload) ==
    IF content.isNone \/ content.tokens = <<>>
    THEN [exc |-> EmptyResponse, value |-> JsonNull]
    ELSE JsonLoads(CleanContent(content.tokens), payload)

\* Faulty variant of SendRequest: a rate-limited request is sent once more.
SendRequest_Retry(up) ==
    LET parsed == ParseResponse(up.content, up.payload)
        raised == IF up.raises # "none"
                  THEN Exc(up.raises, <<"upstream">>)
                  ELSE parsed.exc
    IN [exc |-> IF raised # NoExc THEN HandleException(raised) ELSE NoExc,
        value |-> IF raised # NoExc THEN JsonNull ELSE parsed.value,
        calls |-> IF IsInstance(up.raises, "RateLimitError") THEN 2 ELSE 1,
        client_built |-> TRUE]

\* The try block of _call_openai_vision: the client is built, one request is
\* sent, the response is parsed; every exception goes through the except
\* clauses.  calls = requests sent.
SendRequest(up) ==
    LET parsed == ParseResponse(up.content, up.payload)
        raised == IF up.raises # "none"
                  THEN Exc(up.raises, <<"upstream">>)
                  ELSE parsed.exc
    IN IF raised # NoExc
       THEN [exc |-> HandleException(raised), value |-> JsonNull,
             calls |-> 1, client_built |-> TRUE]
       ELSE [exc |-> NoExc, value |-> parsed.value,
             calls |-> 1, client_built |-> TRUE]

\* Faulty variant of CallOpenAIVision: the credential is not checked.
CallOpenAIVision_NoKeyCheck(key, up) == SendRequest(up)

\* _call_openai_vision: the exception raised (NoExc if it returns), the
\* value returned, the number of requests sent and whether a client was
\* built.  The credential check comes before the try block.
CallOpenAIVision(key, up) ==
    IF ~Truthy(key)
    THEN [exc |-> NotConfigured, value |-> JsonNull, calls |-> 0, client_built |-> FALSE]
    ELSE SendRequest(up)

(* ------------------------------------------------------------------ *)
(* _find_matching_region                                               *)
(* ------------------------------------------------------------------ *)

\* A row of the Region table.
Region(id, name, country) == [id |-> id, name |-> name, country |-> country]
NoRegion == Region(0, <<>>, <<>>)

\* The value _find_matching_region returns: None, or the dict of the match;
\* match_score = best_score / 100.0 is kept as the fraction num/den.
NoMatch ==
    [found |-> FALSE, id |-> 0, name |-> <<>>, country |-> <<>>,
     match_score |-> [num |-> 0, den |-> 1]]
Match(region, best_score) ==
    [found |-> TRUE, id |-> region.id, name |-> region.name,
     country |-> region.country,
     match_score |-> [num |-> best_score, den |-> 100]]

Min(a, b) == IF a <= b THEN a ELSE b
Max(a, b) == IF a >= b THEN a ELSE b

\* Length of the longest common subsequence of two strings.
RECURSIVE LCS(_, _)
LCS(a, b) ==
    IF a = <<>> \/ b = <<>> THEN 0
    ELSE IF Head(a) = Head(b) THEN 1 + LCS(Tail(a), Tail(b))
    ELSE Max(LCS(Tail(a), b), LCS(a, Tail(b)))

\* int(round(x)) for x = num/den >= 0: Python rounds halves to even.
RoundHalfEven(num, den) ==
    LET q == num \div den
        r == num % den
    IN IF 2 * r > den THEN q + 1
       ELSE IF 2 * r < den THEN q
       ELSE IF q % 2 = 0 THEN q ELSE q + 1

\* fuzz.ratio(a, b): the similarity 2 * LCS / (len(a) + len(b)) on the
\* 0-100 scale, rounded to an integer.
Ratio(a, b) ==
    IF Len(a) + Len(b) = 0 THEN 100
    ELSE RoundHalfEven(200 * LCS(a, b), Len(a) + Len(b))

\* str(region.country) == country_code
CountryMatches(region, country_code) ==
    country_code.t = "str" /\ country_code.s = region.country

\* Faulty variant of FinalScore: the boosted score is not capped.
FinalScore_NoCap(region_name_lower, country_code, region) ==
    LET score == Ratio(region_name_lower, Lower(region.name)) IN
    IF Truthy(country_code) /\ CountryMatches(region, country_code)
    THEN score + COUNTRY_BOOST
    ELSE score

\* The score of one candidate: the ratio, boosted when the country matches.
FinalScore(region_name_lower, country_code, region) ==
    LET score == Ratio(region_name_lower, Lower(region.name)) IN
    IF Truthy(country_code) /\ CountryMatches(region, country_code)
    THEN Min(MAX_SCORE, score + COUNTRY_BOOST)
    ELSE score

\* Faulty variant of Better: a candidate with an equal score replaces the
\* best one.
Better_OrEqual(score, best_score) == score >= best_score

\* Whether a candidate replaces the best one so far.
Better(score, best_score) == score > best_score

\* The for loop over the candidates from position i on.
RECURSIVE ScoreLoop(_, _, _, _, _)
ScoreLoop(candidates, i, region_name_lower, country_code, best) ==
    IF i > Len(candidates) THEN best
    ELSE LET score == FinalScore(region_name_lower, country_code, candidates[i]) IN
         ScoreLoop(candidates, i + 1, region_name_lower, country_code,
                   IF Better(score, best.score)
                   THEN [score |-> score, match |-> candidates[i]]
                   ELSE best)

\* Region.objects.filter(country=country_code) and .exclude(...), in the
\* order of the table.
FilterCountry(rows, country_code) ==
    SelectSeq(rows, LAMBDA r : CountryMatches(r, country_code))
ExcludeCountry(rows, country_code) ==
    SelectSeq(rows, LAMBDA r : ~CountryMatches(r, country_code))

\* The candidate list: same country first, then the others.
Candidates(rows, country_code) ==
    IF Truthy(country_code)
    THEN FilterCountry(rows, country_code) \o ExcludeCountry(rows, country_code)
    ELSE rows

\* What a call of the resolver did: nothing read and nothing scored.
NoResolve ==
    [exc |-> NoExc, match |-> NoMatch, rows |-> <<>>, candidates |-> <<>>,
     reads |-> 0, scored |-> 0, best_score |-> 0]

\* Faulty variant of Accept: the threshold itself is rejected.
Accept_Strict(best) == best.match # NoRegion /\ best.score > MATCH_THRESHOLD

\* The acceptance test on the best candidate.
Accept(best) == best.match # NoRegion /\ best.score >= MATCH_THRESHOLD

\* Faulty variant of NameMissing: only None is taken as a missing name.
NameMissing_OnlyNone(region_name) == region_name = PyNone

\* if not region_name: return None
NameMissing(region_name) == ~Truthy(region_name)

\* _find_matching_region from `if not candidates` on, for the candidates that
\* its queries fetched.
ScoreCandidates(region_name, country_code, rows, candidates, reads) ==
    IF candidates = <<>>
    THEN [NoResolve EXCEPT !.reads = reads, !.rows = rows]
    ELSE IF region_name.t # "str"
    THEN [NoResolve EXCEPT !.reads = reads, !.rows = rows,
              !.candidates = candidates,
              !.exc = Exc("AttributeError", <<"object has no attribute 'lower'">>)]
    ELSE LET best == ScoreLoop(candidates, 1, Lower(region_name.s), country_code,
                               [score |-> 0, match |-> NoRegion])
         IN [exc |-> NoExc,
             match |-> IF Accept(best) THEN Match(best.match, best.score) ELSE NoMatch,
             rows |-> rows, candidates |-> candidates, reads |-> reads,
             scored |-> Len(candidates), best_score |-> best.score]

\* _find_matching_region: the exception raised (NoExc if it returns), the
\* value returned, the rows of the catalog when it was read, the candidates
\* fetched, the number of catalog queries and of candidates scored, and the
\* best score.
FindMatchingRegion(region_name, country_code, rows) ==
    IF NameMissing(region_name) THEN NoResolve
    ELSE ScoreCandidates(region_name, country_code, rows, Candidates(rows, country_code),
                         IF Truthy(country_code) THEN 2 ELSE 1)

(* ------------------------------------------------------------------ *)
(* analyze_wine_label after the inference step                         *)
(* ------------------------------------------------------------------ *)

red == PyStr(<<"r", "e", "d">>)
white == PyStr(<<"w", "h", "i", "t", "e">>)
rose_accented == PyStr(<<"r", "o", "s", "é">>)
sparkling == PyStr(<<"s", "p", "a", "r", "k", "l", "i", "n", "g">>)

\* valid_types = ["red", "white", "rosé", "sparkling"]
valid_types == {red, white, rose_accented, sparkling}

\* "Validate wine_type": the value kept in data["wine_type"].
CoerceWineType(wine_type) ==
    IF Truthy(wine_type) /\ wine_type \notin valid_types THEN PyNone ELSE wine_type

\* The dict analyze_wine_label returns.
Result(wine_type, country, suggested_region_name, matched_region, confidence, raw_text) ==
    [success |-> TRUE, wine_type |-> wine_type, country |-> country,
     suggested_region_name |-> suggested_region_name,
     matched_region |-> matched_region,
     confidence |-> confidence, raw_text |-> raw_text]
NoResult == [success |-> FALSE, wine_type |-> PyNone, country |-> PyNone,
             suggested_region_name |-> PyNone, matched_region |-> NoMatch,
             confidence |-> ConfidenceNull, raw_text |-> PyNone]

\* Lines 280-313 around the call of _find_matching_region: its exception
\* leaves analyze_wine_label, its value goes into the result.
BuildResult(ai, found) ==
    IF found.exc # NoExc
    THEN [exc |-> found.exc, result |-> NoResult, resolver |-> found]
    ELSE [exc |-> NoExc,
          result |-> Result(CoerceWineType(Get(ai, "wine_type")),
                            Get(ai, "country"), Get(ai, "region"), found.match,
                            GetOr(ai, "confidence", ConfidenceDict({}, 0)),
                            GetOr(ai, "raw_text", PyStr(<<>>))),
          resolver |-> found]

\* Lines 280-313: field extraction, wine_type validation, region matching
\* and the result; ai_response.get raises on a value that is no dict.
PostProcess(ai, rows) ==
    IF ai.t # "dict"
    THEN [exc |-> Exc("AttributeError", <<"object has no attribute 'get'">>),
          result |-> NoResult, resolver |-> NoResolve]
    ELSE BuildResult(ai, FindMatchingRegion(Get(ai, "region"), Get(ai, "country"), rows))

(* ------------------------------------------------------------------ *)
(* The analyze-label endpoint                                          *)
(* ------------------------------------------------------------------ *)

\* choices=["red", "white", "ros\u221a\u00a9", "sparkling"] of the wine_type
\* field: the third choice ends in the characters U+221A and U+00A9, not in
\* U+00E9 as valid_types does.
rose_choice == PyStr(<<"r", "o", "s", "U+221A", "U+00A9">>)
wine_type_choices == {red, white, rose_choice, sparkling}

\* str(n) for a natural number.
RECURSIVE DecimalDigits(_)
DecimalDigits(n) ==
    LET digit == <<"0", "1", "2", "3", "4", "5", "6", "7", "8", "9">>[(n % 10) + 1] IN
    IF n < 10 THEN <<digit>> ELSE Append(DecimalDigits(n \div 10), digit)

\* serializers.ChoiceField(choices, allow_null=True): null passes, any other
\* value must be one of the choices.
ChoiceFieldValid(value) == value = PyNone \/ value \in wine_type_choices

\* serializers.CharField: null passes only with allow_null, "" only with
\* allow_blank; a string or a number is accepted, anything else is not.
CharFieldValid(value, allow_null, allow_blank) ==
    CASE value.t = "NoneType" -> allow_null
      [] value.t = "str"      -> value.s # <<>> \/ allow_blank
      [] value.t = "int"      -> TRUE
      [] OTHER                -> FALSE

\* The validated value of a CharField: a number is converted with str().
CharFieldValue(value) ==
    IF value.t = "int" THEN PyStr(DecimalDigits(value.n)) ELSE value

\* Faulty variant of ConfidenceDefaults: an omitted entry stays omitted.
ConfidenceDefaults_None(confidence) == confidence.e

\* LabelAnalysisConfidenceSerializer: FloatField(default=0.0) for each of
\* the seven fields.
ConfidenceDefaults(confidence) ==
    [k \in ConfidenceFields |-> IF confidence.e[k] = Omitted THEN 0 ELSE confidence.e[k]]

\* The body of a 200 response.
Body(wine_type, country, suggested_region_name, matched_region, confidence, raw_text) ==
    [wine_type |-> wine_type, country |-> country,
     suggested_region_name |-> suggested_region_name,
     matched_region |-> matched_region,
     confidence |-> confidence, raw_text |-> raw_text]
NoBody == Body(PyNone, PyNone, PyNone, NoMatch, [k \in ConfidenceFields |-> Omitted], PyNone)

\* LabelAnalysisResponseSerializer(data=result).is_valid(): whether the
\* result validates, and serializer.data if it does.
ValidateResult(result) ==
    LET valid ==
            /\ ChoiceFieldValid(result.wine_type)
            /\ CharFieldValid(result.country, TRUE, FALSE)
            /\ CharFieldValid(result.suggested_region_name, TRUE, FALSE)
            /\ result.confidence.t = "dict"
            /\ CharFieldValid(result.raw_text, FALSE, TRUE)
    IN [valid |-> valid,
        data |-> IF valid
                 THEN Body(result.wine_type, CharFieldValue(result.country),
                           CharFieldValue(result.suggested_region_name),
                           result.matched_region,
                           ConfidenceDefaults(result.confidence),
                           CharFieldValue(result.raw_text))
                 ELSE NoBody]

\* A response of the endpoint: the status, the "error" text of an error
\* response and the body of a 200 response.
HttpResponse(status, error, body) == [status |-> status, error |-> error, body |-> body]
NoResponse == HttpResponse(0, <<>>, NoBody)
NoImageProvided ==
    HttpResponse(400, <<"No image provided. Please upload an image file.">>, NoBody)
UnexpectedError ==
    HttpResponse(500, <<"An unexpected error occurred while analyzing the image.">>, NoBody)

\* WineViewSet.analyze_label after analyze_wine_label has returned or
\* raised: the try block and its two except clauses.
AnalyzeLabelView(ended) ==
    IF ended.status = "raised"
    THEN IF IsInstance(ended.exc.type, "LabelAnalysisError")
         THEN HttpResponse(422, ended.exc.msg, NoBody)
         ELSE UnexpectedError
    ELSE LET serializer == ValidateResult(ended.result) IN
         IF serializer.valid
         THEN HttpResponse(200, <<>>, serializer.data)
         ELSE UnexpectedError

(* ------------------------------------------------------------------ *)
(* The cellar: wines, stores and bottles                                *)
(* ------------------------------------------------------------------ *)

\* consumed_at of a bottle that is not consumed (null).
NoDate == 0

\* store of a bottle bought nowhere known (null), price of a bottle whose
\* price is not recorded (null).
NoStore == 0
NoPrice == 0

\* A row of the Bottle table, created without purchase_date and price.
Bottle(id, wine, store, consumed_at) ==
    [id |-> id, wine |-> wine, purchase_date |-> NoDate, price |-> NoPrice,
     store |-> store, consumed_at |-> consumed_at]

\* self.get_object(): whether a bottle with this pk exists, and the bottle.
Exists(rows, pk) == \E b \in rows : b.id = pk
GetObject(rows, pk) == CHOOSE b \in rows : b.id = pk

\* Faulty variant of Save: every column of the row is written from the
\* instance.
Save_AllFields(rows, bottle) ==
    {IF b.id = bottle.id THEN bottle ELSE b : b \in rows}

\* bottle.save(update_fields=["consumed_at"]): only the consumed_at column of
\* the row with the instance's pk is written.
Save(rows, bottle) ==
    {IF b.id = bottle.id THEN [b EXCEPT !.consumed_at = bottle.consumed_at] ELSE b :
        b \in rows}

\* Bottle.wine, on_delete=CASCADE: the bottles left when a wine is deleted.
Cascade(rows, w) == {b \in rows : b.wine # w}

\* Bottle.store, on_delete=SET_NULL: the bottles once a store is deleted.
SetNull(rows, st) ==
    {IF b.store = st THEN [b EXCEPT !.store = NoStore] ELSE b : b \in rows}

\* The rows of Wine LEFT OUTER JOIN Bottle for one wine: one row per bottle
\* of the wine, or one row of nulls if it has none.
NoBottle == 0
JoinBottles(rows, w) ==
    IF \E b \in rows : b.wine = w
    THEN {[bottle |-> b.id, consumed_at |-> b.consumed_at] : b \in {x \in rows : x.wine = w}}
    ELSE {[bottle |-> NoBottle, consumed_at |-> NoDate]}

\* Count("bottle", distinct=True): the distinct non-null bottle ids.
bottle_count(rows, w) ==
    Cardinality({r.bottle : r \in {x \in JoinBottles(rows, w) : x.bottle # NoBottle}})

\* Faulty variant of in_stock_count: the joined rows passing the filter are
\* counted, not their bottle ids.
in_stock_count_Rows(rows, w) ==
    Cardinality({r \in JoinBottles(rows, w) : r.consumed_at = NoDate})

\* Count("bottle", filter=Q(bottle__consumed_at__isnull=True), distinct=True):
\* the distinct non-null bottle ids of the rows whose consumed_at is null.
in_stock_count(rows, w) ==
    Cardinality({r.bottle : r \in {x \in JoinBottles(rows, w) :
                                      x.consumed_at = NoDate /\ x.bottle # NoBottle}})

\* Faulty variant of ConsumeBottle: consumed_at is set on every call.
ConsumeBottle_Always(bottle, localdate) == [bottle EXCEPT !.consumed_at = localdate]

\* consume: consumed_at is set to the local date only if it is None.
ConsumeBottle(bottle, localdate) ==
    IF bottle.consumed_at = NoDate
    THEN [bottle EXCEPT !.consumed_at = localdate]
    ELSE bottle

\* Faulty variant of UndoConsumeBottle: consumed_at is never cleared.
UndoConsumeBottle_Keep(bottle) == bottle

\* undo_consume: consumed_at is cleared only if it is set.
UndoConsumeBottle(bottle) ==
    IF bottle.consumed_at # NoDate
    THEN [bottle EXCEPT !.consumed_at = NoDate]
    ELSE bottle

\* The response to a bottle request: the action, the pk, the status, and
\* consumed_at of the bottle as it was read and as it is in the response.
Reply(op, pk, status, before, after) ==
    [op |-> op, pk |-> pk, status |-> status, before |-> before, after |-> after]
NoReply == Reply("none", 0, 0, NoDate, NoDate)

\* Faulty variant of NotFound: a missing bottle is answered with 200.
NotFound_Ok(op, pk) == Reply(op, pk, 200, NoDate, NoDate)

\* save(update_fields=...) raises DatabaseError when the UPDATE matches no
\* row; nothing handles it and the request is answered with 500.
SaveFailed(op, pk, before) == Reply(op, pk, 500, before, NoDate)

\* The consume and undo_consume requests between get_object() and the
\* response: the action and the instance that get_object() returned.
Handlers == {"h1", "h2"}
InFlight(op, bottle) == [op |-> op, bottle |-> bottle]
NoRequest == InFlight("none", Bottle(0, 0, NoStore, NoDate))
NoRequests == [h \in Handlers |-> NoRequest]

\* DestroyModelMixin.destroy answers 204 once the row is deleted.
Deleted(op, pk) == Reply(op, pk, 204, NoDate, NoDate)

\* get_object() raises Http404 for a pk that matches no bottle.
NotFound(op, pk) == Reply(op, pk, 404, NoDate, NoDate)

(* ------------------------------------------------------------------ *)
(* Inputs                                                              *)
(* ------------------------------------------------------------------ *)

\* settings.OPENAI_API_KEY: unset, empty or set.
ApiKeys == {PyNone, PyStr(<<>>), PyStr(<<"s", "k">>)}

FR == <<"F", "R">>
IT == <<"I", "T">>

\* Names of catalog regions and names the model suggests.
RegionNames == {<<"a", "b", "c">>, <<"A", "b", "c", "d", "e">>}
Countries == {FR, IT}

WineTypeValues ==
    valid_types \cup
    { Absent, PyNone, PyStr(<<>>), PyStr(<<"r", "o", "s", "e">>),
      PyStr(<<"R", "e", "d">>), PyInt(5), PyInt(0), PyList }

RegionValues ==
    { Absent, PyNone, PyStr(<<>>), PyInt(7), PyStr(<<"A", "B", "c">>),
      PyStr(<<"a", "b">>), PyStr(<<"d", "e">>) }

CountryValues == {Absent, PyStr(<<>>), PyStr(FR), PyStr(IT)}

ConfidenceValues ==
    { ConfidenceAbsent, ConfidenceNull, ConfidenceDict({}, 0),
      ConfidenceDict({"name", "wine_type"}, 90) }

RawTextValues == {Absent, PyNone, PyStr(<<>>), PyStr(<<"A", "B", "c">>)}

\* The JSON values the upstream model may write.
Payloads ==
    {JsonList, JsonNull}
    \cup {JsonDictOf(red, Absent, Absent, c, Absent) : c \in ConfidenceValues}
    \cup {JsonDictOf(red, Absent, Absent, ConfidenceAbsent, t) : t \in RawTextValues}
    \cup {JsonDictOf(red, Absent, Absent, ConfidenceDict({"name", "wine_type"}, 90),
                      PyStr(<<"A", "B", "c">>))}
    \cup {JsonDict(w, Absent, Absent) : w \in WineTypeValues}
    \cup {JsonDict(red, c, r) : c \in CountryValues, r \in RegionValues}

\* message.content without a JSON value in it.
ContentsNoValue ==
    { ContentNone, Content(<<>>), Content(<<"ws">>), Content(<<"prose">>),
      Content(<<"json">>), Content(<<"fence", "fence">>),
      Content(<<"fence", "json", "fence">>), Content(<<"ws", "fence", "ws">>),
      Content(<<"fence", "json", "prose", "fence">>) }

\* message.content with the text of a JSON value in it.
ContentsWithValue ==
    { Content(<<"val">>), Content(<<"ws", "val", "ws">>),
      Content(<<"fence", "json", "ws", "val", "ws", "fence">>),
      Content(<<"ws", "fence", "ws", "val", "ws", "fence", "ws">>),
      Content(<<"fence", "val", "fence">>),
      Content(<<"ws", "fence", "json", "val", "fence", "ws">>),
      Content(<<"fence", "json", "val">>),
      Content(<<"prose", "val">>), Content(<<"val", "val">>),
      Content(<<"prose", "fence", "json", "ws", "val", "ws", "fence">>) }

\* The inputs of the runs in which the catalog changes under the resolver:
\* one image, a response with a country hint and one without, one region
\* name.
CatalogImages == {Img(TRUE, TRUE, "RGB", 800, 600)}
CatalogUpstreams ==
    { Upstream("none", Content(<<"val">>), JsonDict(red, PyStr(FR), PyStr(<<"a", "b", "c">>))),
      Upstream("none", Content(<<"val">>), JsonDict(red, Absent, PyStr(<<"a", "b", "c">>))) }
CatalogNames == {<<"a", "b", "c">>}

\* The inputs of the second request.
OtherImages == {NoImage, Img(TRUE, TRUE, "RGB", 2048, 1536)}
OtherUpstreams ==
    { Upstream("RateLimitError", ContentNone, JsonNull),
      Upstream("none", Content(<<"val">>),
               JsonDict(red, PyStr(IT), PyStr(<<"A", "B", "c">>))) }

\* The region catalogs of the runs with two requests.
FixedCatalogs ==
    { <<>>,
      <<Region(1, <<"a", "b", "c">>, FR), Region(2, <<"a", "b", "c", "d">>, IT)>> }

\* The bottles the concurrent consume and undo_consume requests address (the
\* third does not exist), the bottles that are updated and deleted meanwhile,
\* and the prices an update writes.
RacePks == {1, 2, 3}
UpdatedPks == {1}
Prices == {NoPrice, 12}

\* Primary keys of the wines and stores the requests create.
WineIds == {1, 2}
StoreIds == {1, 2}

\* Exceptions of the OpenAI client and of reading response.choices[0].
UpstreamExceptions ==
    { "RateLimitError", "APIConnectionError", "APITimeoutError",
      "AuthenticationError", "APIError", "IndexError" }

Upstreams ==
    {Upstream(e, ContentNone, JsonNull) : e \in UpstreamExceptions}
    \cup {Upstream("none", c, JsonNull) : c \in ContentsNoValue}
    \cup {Upstream("none", Content(<<"val">>), p) : p \in Payloads}
    \cup {Upstream("none", c, p) : c \in ContentsWithValue,
                                   p \in {JsonList, JsonDict(red, PyStr(FR), PyStr(<<"a", "b">>))}}

(* ------------------------------------------------------------------ *)
(* State machine                                                       *)
(* ------------------------------------------------------------------ *)

\* The outcome of an invocation: still running, returned, or raised exc at
\* the step named by at.
Running == [status |-> "running", exc |-> NoExc, at |-> "", result |-> NoResult]
Returned(result) ==
    [status |-> "returned", exc |-> NoExc, at |-> "assemble", result |-> result]
Raised(exc, at) == [status |-> "raised", exc |-> exc, at |-> at, result |-> NoResult]

\* analyze_wine_label run from its first line to its last on one image, one
\* upstream behaviour and one catalog: what it returns or raises.
RunAlone(img, key, up, rows) ==
    LET invalid == ValidateImage(img)
        resized == ResizeImage(img, OPENAI_MAX_IMAGE_SIZE)
        encoded == ImageToBase64(img)
        inferred == CallOpenAIVision(key, up)
        assembled == PostProcess(inferred.value, rows)
    IN IF invalid # NoExc THEN Raised(invalid, "validate")
       ELSE IF resized.exc # NoExc THEN Raised(resized.exc, "normalize")
       ELSE IF encoded # NoExc THEN Raised(encoded, "normalize")
       ELSE IF inferred.exc # NoExc THEN Raised(inferred.exc, "infer")
       ELSE IF assembled.exc # NoExc THEN Raised(assembled.exc, "assemble")
       ELSE Returned(assembled.result)

\* The response of the endpoint once the pipeline has ended.
Respond(next_pc, ended) ==
    IF next_pc = "done" THEN AnalyzeLabelView(ended) ELSE NoResponse

\* The locals of the second request before it starts; overlap tells that it
\* started while the first request was running.
NoInvocation ==
    [pc |-> "idle", image |-> NoImage, img_size |-> <<0, 0>>,
     upstream |-> NoUpstream, ai_response |-> JsonNull, calls |-> 0,
     client_built |-> FALSE, resolver |-> NoResolve, outcome |-> Running,
     response |-> NoResponse, overlap |-> FALSE]

Init ==
    /\ pc = "idle"
    /\ image = NoImage
    /\ img_size = <<0, 0>>
    /\ api_key \in ApiKeys
    /\ upstream = NoUpstream
    /\ ai_response = JsonNull
    /\ calls = 0
    /\ client_built = FALSE
    /\ regions = <<>>
    /\ next_region_id = 1
    /\ resolver = NoResolve
    /\ outcome = Running
    /\ response = NoResponse
    /\ wines = {}
    /\ stores = {}
    /\ bottles = {}
    /\ next_bottle_id = 1
    /\ today = 1
    /\ reply = NoReply
    /\ other = NoInvocation
    /\ inflight = NoRequests
    /\ moments = <<>>

\* analyze_label is called without an "image" file in the request.
AnalyzeNoImage ==
    /\ pc = "idle"
    /\ pc' = "rejected"
    /\ response' = NoImageProvided
    /\ UNCHANGED <<image, img_size, api_key, upstream, ai_response, calls,
                   client_built, regions, next_region_id, resolver, outcome>>
    /\ UNCHANGED <<cellar_vars, other, moments>>

\* analyze_wine_label is called with an uploaded file: lines 257-268.
Analyze(img) ==
    /\ pc = "idle"
    /\ image' = img
    /\ LET exc == ValidateImage(img) IN
       IF exc # NoExc
       THEN pc' = "done" /\ outcome' = Raised(exc, "validate")
       ELSE pc' = "opened" /\ outcome' = Running
    /\ response' = Respond(pc', outcome')
    /\ UNCHANGED <<img_size, api_key, upstream, ai_response, calls,
                   client_built, regions, next_region_id, resolver>>
    /\ UNCHANGED <<cellar_vars, other, moments>>

\* Faulty variant of Normalize: a failed resize or encoding is ignored and
\* the invocation goes on.
Normalize_IgnoresFailure ==
    /\ pc = "opened"
    /\ LET resized == ResizeImage(image, OPENAI_MAX_IMAGE_SIZE) IN
       img_size' = resized.size
    /\ pc' = "encoded"
    /\ outcome' = Running
    /\ response' = Respond(pc', outcome')
    /\ UNCHANGED <<image, api_key, upstream, ai_response, calls, client_built,
                   regions, next_region_id, resolver>>
    /\ UNCHANGED <<cellar_vars, other, moments>>

\* Lines 270-275: _resize_image and _image_to_base64, outside any try.
Normalize ==
    /\ pc = "opened"
    /\ LET resized == ResizeImage(image, OPENAI_MAX_IMAGE_SIZE)
           encoded == ImageToBase64(image)
       IN IF resized.exc # NoExc
          THEN pc' = "done" /\ outcome' = Raised(resized.exc, "normalize") /\ UNCHANGED img_size
          ELSE IF encoded # NoExc
          THEN pc' = "done" /\ outcome' = Raised(encoded, "normalize") /\ img_size' = resized.size
          ELSE pc' = "encoded" /\ outcome' = Running /\ img_size' = resized.size
    /\ response' = Respond(pc', outcome')
    /\ UNCHANGED <<image, api_key, upstream, ai_response, calls, client_built,
                   regions, next_region_id, resolver>>
    /\ UNCHANGED <<cellar_vars, other, moments>>

\* Faulty variant of Infer: the parsed response is kept in a module-level
\* variable that the requests share.
Infer_SharedResponse(up) ==
    /\ pc = "encoded"
    /\ LET r == CallOpenAIVision(api_key, up) IN
       /\ upstream' = IF r.calls > 0 THEN up ELSE NoUpstream
       /\ calls' = calls + r.calls
       /\ client_built' = r.client_built
       /\ ai_response' = IF other.calls > 0 THEN other.ai_response ELSE r.value
       /\ IF r.exc # NoExc
          THEN pc' = "done" /\ outcome' = Raised(r.exc, "infer")
          ELSE pc' = "inferred" /\ outcome' = Running
    /\ response' = Respond(pc', outcome')
    /\ UNCHANGED <<image, img_size, api_key, regions, next_region_id, resolver>>
    /\ UNCHANGED <<cellar_vars, other, moments>>

\* Line 278: _call_openai_vision; up is what the upstream does with a request
\* (recorded only if a request was sent).
Infer(up) ==
    /\ pc = "encoded"
    /\ LET r == CallOpenAIVision(api_key, up) IN
       /\ upstream' = IF r.calls > 0 THEN up ELSE NoUpstream
       /\ calls' = calls + r.calls
       /\ client_built' = r.client_built
       /\ ai_response' = r.value
       /\ IF r.exc # NoExc
          THEN pc' = "done" /\ outcome' = Raised(r.exc, "infer")
          ELSE pc' = "inferred" /\ outcome' = Running
    /\ response' = Respond(pc', outcome')
    /\ UNCHANGED <<image, img_size, api_key, regions, next_region_id, resolver>>
    /\ UNCHANGED <<cellar_vars, other, moments>>

\* Faulty variant of Assemble: a suggested region that matches no catalog
\* row is added to the catalog.
Assemble_SavesRegion ==
    /\ pc = "inferred"
    /\ LET r == PostProcess(ai_response, regions) IN
       /\ resolver' = r.resolver
       /\ outcome' = IF r.exc # NoExc THEN Raised(r.exc, "assemble") ELSE Returned(r.result)
       /\ regions' = IF r.exc = NoExc /\ ~r.result.matched_region.found
                     THEN Append(regions, Region(next_region_id, <<"d", "e">>, FR))
                     ELSE regions
    /\ pc' = "done"
    /\ response' = Respond(pc', outcome')
    /\ UNCHANGED <<image, img_size, api_key, upstream, ai_response, calls,
                   client_built, next_region_id>>
    /\ UNCHANGED <<cellar_vars, other, moments>>

\* Lines 280-313, reading the region catalog as it is now.
Assemble ==
    /\ pc = "inferred"
    /\ LET r == PostProcess(ai_response, regions) IN
       /\ resolver' = r.resolver
       /\ outcome' = IF r.exc # NoExc THEN Raised(r.exc, "assemble") ELSE Returned(r.result)
    /\ pc' = "done"
    /\ response' = Respond(pc', outcome')
    /\ UNCHANGED <<image, img_size, api_key, upstream, ai_response, calls,
                   client_built, regions, next_region_id>>
    /\ UNCHANGED <<cellar_vars, other, moments>>

\* The resolver is called with a region name and a country hint, so that it
\* sends two queries: filter(country=...) and exclude(country=...).
TwoQueries ==
    /\ ai_response.t = "dict"
    /\ ~NameMissing(Get(ai_response, "region"))
    /\ Truthy(Get(ai_response, "country"))

\* Lines 280-313 for a call of the resolver that sends one query or none.
AssembleOneQuery == ~TwoQueries /\ Assemble

\* Lines 280-298 and 197-205: up to the first query of the resolver, the
\* regions of the hinted country.
FetchSameCountry ==
    /\ pc = "inferred"
    /\ TwoQueries
    /\ resolver' = [NoResolve EXCEPT !.rows = regions, !.reads = 1,
                        !.candidates = FilterCountry(regions, Get(ai_response, "country"))]
    /\ moments' = <<regions>>
    /\ pc' = "fetching"
    /\ UNCHANGED <<image, img_size, api_key, upstream, ai_response, calls,
                   client_built, regions, next_region_id, outcome, response>>
    /\ UNCHANGED <<cellar_vars, other>>

\* Lines 207-313: the second query of the resolver, the regions of the other
\* countries as they are now, the scoring and the result.
FetchOthers ==
    /\ pc = "fetching"
    /\ LET country_code == Get(ai_response, "country")
           candidates == resolver.candidates \o ExcludeCountry(regions, country_code)
           found == ScoreCandidates(Get(ai_response, "region"), country_code,
                                    resolver.rows, candidates, 2)
           r == BuildResult(ai_response, found)
       IN /\ resolver' = r.resolver
          /\ outcome' = IF r.exc # NoExc THEN Raised(r.exc, "assemble") ELSE Returned(r.result)
    /\ pc' = "done"
    /\ response' = Respond(pc', outcome')
    /\ UNCHANGED <<image, img_size, api_key, upstream, ai_response, calls,
                   client_built, regions, next_region_id>>
    /\ UNCHANGED <<cellar_vars, other, moments>>

\* The invocation is over; the next one starts with fresh locals.
Finish ==
    /\ pc \in {"done", "rejected"}
    /\ pc' = "idle"
    /\ image' = NoImage
    /\ img_size' = <<0, 0>>
    /\ upstream' = NoUpstream
    /\ ai_response' = JsonNull
    /\ calls' = 0
    /\ client_built' = FALSE
    /\ resolver' = NoResolve
    /\ outcome' = Running
    /\ response' = NoResponse
    /\ moments' = <<>>
    /\ UNCHANGED <<api_key, regions, next_region_id>>
    /\ UNCHANGED <<cellar_vars, other>>

\* The catalog states since the first query of a resolver call that is
\* between its two queries, with the state after this change added; a call
\* sees at most MaxChanges changes.
Seen(rows) == IF pc = "fetching" THEN Append(moments, rows) ELSE moments
CanChange == pc = "fetching" => Len(moments) <= MaxChanges

\* RegionViewSet.create: another request adds a region to the catalog.
CreateRegion(name, country) ==
    /\ next_region_id <= MaxRegions
    /\ CanChange
    /\ regions' = Append(regions, Region(next_region_id, name, country))
    /\ next_region_id' = next_region_id + 1
    /\ moments' = Seen(regions')
    /\ UNCHANGED <<pc, image, img_size, api_key, upstream, ai_response, calls,
                   client_built, resolver, outcome, response>>
    /\ UNCHANGED <<cellar_vars, other>>

\* RegionViewSet.destroy: another request deletes a region.
DeleteRegion(i) ==
    /\ i \in 1..Len(regions)
    /\ CanChange
    /\ regions' = SubSeq(regions, 1, i - 1) \o SubSeq(regions, i + 1, Len(regions))
    /\ moments' = Seen(regions')
    /\ UNCHANGED <<pc, image, img_size, api_key, upstream, ai_response, calls,
                   client_built, next_region_id, resolver, outcome, response>>
    /\ UNCHANGED <<cellar_vars, other>>

\* RegionViewSet.partial_update: another request changes the country of a
\* region.
UpdateRegion(i, country) ==
    /\ i \in 1..Len(regions)
    /\ CanChange
    /\ regions' = [regions EXCEPT ![i].country = country]
    /\ moments' = Seen(regions')
    /\ UNCHANGED <<pc, image, img_size, api_key, upstream, ai_response, calls,
                   client_built, next_region_id, resolver, outcome, response>>
    /\ UNCHANGED <<cellar_vars, other>>

Next ==
    \/ AnalyzeNoImage
    \/ \E img \in Images : Analyze(img)
    \/ Normalize
    \/ \E up \in Upstreams : Infer(up)
    \/ Assemble
    \/ Finish
    \/ \E name \in RegionNames, country \in Countries : CreateRegion(name, country)
    \/ \E i \in 1..MaxRegions : DeleteRegion(i)

Spec == Init /\ [][Next]_vars

\* The catalog changes while the resolver runs: the two queries of a call
\* with a country hint are separate steps, and regions are created, deleted
\* and moved to another country in between.
InitCatalog == Init /\ Truthy(api_key)

NextCatalog ==
    \/ \E img \in CatalogImages : Analyze(img)
    \/ Normalize
    \/ \E up \in CatalogUpstreams : Infer(up)
    \/ AssembleOneQuery
    \/ FetchSameCountry
    \/ FetchOthers
    \/ Finish
    \/ \E name \in CatalogNames, country \in Countries : CreateRegion(name, country)
    \/ \E i \in 1..MaxRegions : DeleteRegion(i)
    \/ \E i \in 1..MaxRegions, country \in Countries : UpdateRegion(i, country)

SpecCatalog == InitCatalog /\ [][NextCatalog]_vars

(* ------------------------------------------------------------------ *)
(* Two analyze-label requests at the same time                         *)
(* ------------------------------------------------------------------ *)

\* The second request: analyze_wine_label is called, lines 257-268.
OtherAnalyze(img) ==
    /\ other.pc = "idle"
    /\ LET exc == ValidateImage(img)
           next_pc == IF exc # NoExc THEN "done" ELSE "opened"
           ended == IF exc # NoExc THEN Raised(exc, "validate") ELSE Running
       IN other' = [other EXCEPT !.pc = next_pc, !.image = img, !.outcome = ended,
                                 !.response = Respond(next_pc, ended),
                                 !.overlap = pc \in {"opened", "encoded", "inferred"}]
    /\ UNCHANGED <<request_vars, api_key, regions, next_region_id, moments, cellar_vars>>

\* The second request: lines 270-275.
OtherNormalize ==
    /\ other.pc = "opened"
    /\ LET resized == ResizeImage(other.image, OPENAI_MAX_IMAGE_SIZE)
           encoded == ImageToBase64(other.image)
           exc == IF resized.exc # NoExc THEN resized.exc ELSE encoded
           next_pc == IF exc # NoExc THEN "done" ELSE "encoded"
           ended == IF exc # NoExc THEN Raised(exc, "normalize") ELSE Running
       IN other' = [other EXCEPT !.pc = next_pc, !.outcome = ended,
                                 !.img_size = IF resized.exc # NoExc THEN @ ELSE resized.size,
                                 !.response = Respond(next_pc, ended)]
    /\ UNCHANGED <<request_vars, api_key, regions, next_region_id, moments, cellar_vars>>

\* The second request: line 278.
OtherInfer(up) ==
    /\ other.pc = "encoded"
    /\ LET r == CallOpenAIVision(api_key, up)
           next_pc == IF r.exc # NoExc THEN "done" ELSE "inferred"
           ended == IF r.exc # NoExc THEN Raised(r.exc, "infer") ELSE Running
       IN other' = [other EXCEPT !.pc = next_pc, !.outcome = ended,
                                 !.upstream = IF r.calls > 0 THEN up ELSE NoUpstream,
                                 !.calls = @ + r.calls,
                                 !.client_built = r.client_built,
                                 !.ai_response = r.value,
                                 !.response = Respond(next_pc, ended)]
    /\ UNCHANGED <<request_vars, api_key, regions, next_region_id, moments, cellar_vars>>

\* The second request: lines 280-313.
OtherAssemble ==
    /\ other.pc = "inferred"
    /\ LET r == PostProcess(other.ai_response, regions)
           ended == IF r.exc # NoExc THEN Raised(r.exc, "assemble") ELSE Returned(r.result)
       IN other' = [other EXCEPT !.pc = "done", !.outcome = ended,
                                 !.resolver = r.resolver,
                                 !.response = Respond("done", ended)]
    /\ UNCHANGED <<request_vars, api_key, regions, next_region_id, moments, cellar_vars>>

\* A cellar with a wine, a store and a bottle, and a region catalog that no
\* request changes while the two analyses run.
InitConcurrent ==
    /\ pc = "idle"
    /\ image = NoImage
    /\ img_size = <<0, 0>>
    /\ api_key \in ApiKeys
    /\ upstream = NoUpstream
    /\ ai_response = JsonNull
    /\ calls = 0
    /\ client_built = FALSE
    /\ regions \in FixedCatalogs
    /\ next_region_id = Len(regions) + 1
    /\ resolver = NoResolve
    /\ outcome = Running
    /\ response = NoResponse
    /\ wines = {1}
    /\ stores = {1}
    /\ bottles = {Bottle(1, 1, NoStore, NoDate)}
    /\ next_bottle_id = 2
    /\ today = 1
    /\ reply = NoReply
    /\ other = NoInvocation
    /\ inflight = NoRequests
    /\ moments = <<>>

NextConcurrent ==
    \/ \E img \in Images : Analyze(img)
    \/ Normalize
    \/ \E up \in Upstreams : Infer(up)
    \/ Assemble
    \/ \E img \in OtherImages : OtherAnalyze(img)
    \/ OtherNormalize
    \/ \E up \in OtherUpstreams : OtherInfer(up)
    \/ OtherAssemble

SpecConcurrent == InitConcurrent /\ [][NextConcurrent]_vars

(* ------------------------------------------------------------------ *)
(* State machine of the cellar                                         *)
(* ------------------------------------------------------------------ *)

\* WineViewSet.create.
CreateWine(w) ==
    /\ w \notin wines
    /\ wines' = wines \cup {w}
    /\ reply' = NoReply
    /\ UNCHANGED <<stores, bottles, next_bottle_id, today>>
    /\ UNCHANGED <<inflight, label_vars>>

\* StoreViewSet.create.
CreateStore(st) ==
    /\ st \notin stores
    /\ stores' = stores \cup {st}
    /\ reply' = NoReply
    /\ UNCHANGED <<wines, bottles, next_bottle_id, today>>
    /\ UNCHANGED <<inflight, label_vars>>

\* BottleViewSet.create: a bottle of an existing wine, bought at an existing
\* store or at none; consumed_at is a field of the request, null if not given.
CreateBottle(w, st, consumed_at) ==
    /\ next_bottle_id <= MaxBottles
    /\ w \in wines
    /\ st = NoStore \/ st \in stores
    /\ bottles' = bottles \cup {Bottle(next_bottle_id, w, st, consumed_at)}
    /\ next_bottle_id' = next_bottle_id + 1
    /\ reply' = NoReply
    /\ UNCHANGED <<wines, stores, today>>
    /\ UNCHANGED <<inflight, label_vars>>

\* BottleViewSet.consume: POST /api/bottles/{pk}/consume/.
Consume(pk) ==
    /\ IF ~Exists(bottles, pk)
       THEN reply' = NotFound("consume", pk) /\ UNCHANGED bottles
       ELSE LET read == GetObject(bottles, pk)
                bottle == ConsumeBottle(read, today)
            IN /\ bottles' = Save(bottles, bottle)
               /\ reply' = Reply("consume", pk, 200, read.consumed_at, bottle.consumed_at)
    /\ UNCHANGED <<wines, stores, next_bottle_id, today>>
    /\ UNCHANGED <<inflight, label_vars>>

\* BottleViewSet.undo_consume: POST /api/bottles/{pk}/undo_consume/.
UndoConsume(pk) ==
    /\ IF ~Exists(bottles, pk)
       THEN reply' = NotFound("undo_consume", pk) /\ UNCHANGED bottles
       ELSE LET read == GetObject(bottles, pk)
                bottle == UndoConsumeBottle(read)
            IN /\ bottles' = Save(bottles, bottle)
               /\ reply' = Reply("undo_consume", pk, 200, read.consumed_at, bottle.consumed_at)
    /\ UNCHANGED <<wines, stores, next_bottle_id, today>>
    /\ UNCHANGED <<inflight, label_vars>>

\* BottleViewSet.destroy: DELETE /api/bottles/{pk}/.
DeleteBottle(pk) ==
    /\ IF ~Exists(bottles, pk)
       THEN reply' = NotFound("destroy", pk) /\ UNCHANGED bottles
       ELSE /\ bottles' = bottles \ {GetObject(bottles, pk)}
            /\ reply' = Deleted("destroy", pk)
    /\ UNCHANGED <<wines, stores, next_bottle_id, today>>
    /\ UNCHANGED <<inflight, label_vars>>

\* Faulty variant of DeleteWine: the bottles of the wine are kept.
DeleteWine_NoCascade(w) ==
    /\ w \in wines
    /\ wines' = wines \ {w}
    /\ reply' = Deleted("destroy_wine", w)
    /\ UNCHANGED <<stores, bottles, next_bottle_id, today>>
    /\ UNCHANGED <<inflight, label_vars>>

\* WineViewSet.destroy: DELETE /api/wines/{pk}/; the collector deletes the
\* bottles of the wine with it.
DeleteWine(w) ==
    /\ w \in wines
    /\ wines' = wines \ {w}
    /\ bottles' = Cascade(bottles, w)
    /\ reply' = Deleted("destroy_wine", w)
    /\ UNCHANGED <<stores, next_bottle_id, today>>
    /\ UNCHANGED <<inflight, label_vars>>

\* Faulty variant of DeleteStore: the bottles of the store are deleted.
DeleteStore_Cascade(st) ==
    /\ st \in stores
    /\ stores' = stores \ {st}
    /\ bottles' = {b \in bottles : b.store # st}
    /\ reply' = Deleted("destroy_store", st)
    /\ UNCHANGED <<wines, next_bottle_id, today>>
    /\ UNCHANGED <<inflight, label_vars>>

\* StoreViewSet.destroy: DELETE /api/stores/{pk}/; the collector sets the
\* store of its bottles to null.
DeleteStore(st) ==
    /\ st \in stores
    /\ stores' = stores \ {st}
    /\ bottles' = SetNull(bottles, st)
    /\ reply' = Deleted("destroy_store", st)
    /\ UNCHANGED <<wines, next_bottle_id, today>>
    /\ UNCHANGED <<inflight, label_vars>>

\* The first statement of consume and undo_consume: get_object() reads the
\* row, or ends the request with 404.
ReadBottle(h, op, pk) ==
    /\ inflight[h] = NoRequest
    /\ IF ~Exists(bottles, pk)
       THEN reply' = NotFound(op, pk) /\ UNCHANGED inflight
       ELSE /\ inflight' = [inflight EXCEPT ![h] = InFlight(op, GetObject(bottles, pk))]
            /\ UNCHANGED reply
    /\ UNCHANGED <<wines, stores, bottles, next_bottle_id, today>>
    /\ UNCHANGED label_vars

\* The rest of consume and undo_consume: the check on the instance, the
\* assignment, the save of the consumed_at column and the response.
WriteBottle(h) ==
    /\ inflight[h] # NoRequest
    /\ LET op == inflight[h].op
           read == inflight[h].bottle
           bottle == IF op = "consume" THEN ConsumeBottle(read, today)
                                       ELSE UndoConsumeBottle(read)
       IN IF bottle = read
          THEN /\ reply' = Reply(op, read.id, 200, read.consumed_at, bottle.consumed_at)
               /\ UNCHANGED bottles
          ELSE IF Exists(bottles, read.id)
          THEN /\ bottles' = Save(bottles, bottle)
               /\ reply' = Reply(op, read.id, 200, read.consumed_at, bottle.consumed_at)
          ELSE /\ reply' = SaveFailed(op, read.id, read.consumed_at)
               /\ UNCHANGED bottles
    /\ inflight' = [inflight EXCEPT ![h] = NoRequest]
    /\ UNCHANGED <<wines, stores, next_bottle_id, today>>
    /\ UNCHANGED label_vars

\* BottleViewSet.partial_update: PATCH /api/bottles/{pk}/ with a price.
UpdateBottle(pk, price) ==
    /\ IF ~Exists(bottles, pk)
       THEN reply' = NotFound("partial_update", pk) /\ UNCHANGED bottles
       ELSE /\ bottles' = {IF b.id = pk THEN [b EXCEPT !.price = price] ELSE b : b \in bottles}
            /\ reply' = NoReply
    /\ UNCHANGED <<wines, stores, next_bottle_id, today>>
    /\ UNCHANGED <<inflight, label_vars>>

\* Midnight: timezone.localdate() returns the next day from now on.
Tick ==
    /\ today < MaxDay
    /\ today' = today + 1
    /\ UNCHANGED <<wines, stores, bottles, next_bottle_id, reply>>
    /\ UNCHANGED <<inflight, label_vars>>

NextCellar ==
    \/ \E w \in WineIds : CreateWine(w)
    \/ \E st \in StoreIds : CreateStore(st)
    \/ \E w \in WineIds, d \in {NoDate} \cup (1..MaxDay) : CreateBottle(w, NoStore, d)
    \/ \E pk \in 1..MaxBottles : Consume(pk)
    \/ \E pk \in 1..MaxBottles : UndoConsume(pk)
    \/ Tick

\* The cellar alone, with the label analysis idle and unconfigured.
InitCellar == Init /\ api_key = PyNone

SpecCellar == InitCellar /\ [][NextCellar]_vars

\* The stock of the cellar: wines, stores and bottles are created and
\* deleted, every bottle is bought at a store, bottles are consumed and
\* restored within one day.
NextStock ==
    \/ \E w \in WineIds : CreateWine(w)
    \/ \E st \in StoreIds : CreateStore(st)
    \/ \E w \in WineIds, st \in StoreIds : CreateBottle(w, st, NoDate)
    \/ \E pk \in 1..MaxBottles : Consume(pk)
    \/ \E pk \in 1..MaxBottles : UndoConsume(pk)
    \/ \E pk \in 1..MaxBottles : DeleteBottle(pk)
    \/ \E w \in WineIds : DeleteWine(w)
    \/ \E st \in StoreIds : DeleteStore(st)

SpecStock == InitCellar /\ [][NextStock]_vars

\* A cellar with a wine, a store and two bottles of which one has a store.
InitRace ==
    /\ pc = "idle"
    /\ image = NoImage
    /\ img_size = <<0, 0>>
    /\ api_key = PyNone
    /\ upstream = NoUpstream
    /\ ai_response = JsonNull
    /\ calls = 0
    /\ client_built = FALSE
    /\ regions = <<>>
    /\ next_region_id = 1
    /\ resolver = NoResolve
    /\ outcome = Running
    /\ response = NoResponse
    /\ wines = {1}
    /\ stores = {1}
    /\ bottles = {Bottle(1, 1, 1, NoDate), Bottle(2, 1, NoStore, NoDate)}
    /\ next_bottle_id = 3
    /\ today = 1
    /\ reply = NoReply
    /\ other = NoInvocation
    /\ inflight = NoRequests
    /\ moments = <<>>

\* Two consume or undo_consume requests run at the same time as updates and
\* deletions of bottles, and midnight may pass between their statements.
NextRace ==
    \/ \E h \in Handlers, op \in {"consume", "undo_consume"}, pk \in RacePks :
          ReadBottle(h, op, pk)
    \/ \E h \in Handlers : WriteBottle(h)
    \/ \E pk \in UpdatedPks, price \in Prices : UpdateBottle(pk, price)
    \/ \E pk \in UpdatedPks : DeleteBottle(pk)
    \/ Tick

SpecRace == InitRace /\ [][NextRace]_vars

(* ------------------------------------------------------------------ *)
(* Claims                                                              *)
(* ------------------------------------------------------------------ *)

\* The invocation is over.
Done == pc = "done"

\* The invocation is over and its one request was answered with a response
\* (the upstream raised nothing).
Answered == Done /\ calls > 0 /\ upstream.raises = "none"

\* The response text once whitespace and fence markers are stripped.
PayloadTokens == CleanContent(upstream.content.tokens)

\* C1: every invocation of analyze_wine_label ends by returning a result or
\* by raising LabelAnalysisError; no other exception class reaches the
\* caller.
C1_OnlyLabelAnalysisError ==
    Done => \/ outcome.status = "returned"
            \/ outcome.status = "raised" /\ outcome.exc.type = "LabelAnalysisError"

\* C2: an input that does not decode as an image makes analyze_wine_label
\* raise the invalid-image error, and no upstream request is sent in that
\* invocation.
C2_InvalidImageNoUpstreamCall ==
    (pc \notin {"idle", "rejected"} /\ ~image.decodes) =>
        /\ Done
        /\ outcome = Raised(InvalidImage, "validate")
        /\ calls = 0
        /\ ~client_built

C2_Witness ==
    Done /\ ~image.decodes /\ outcome.exc = InvalidImage /\ calls = 0

\* C3: an empty upstream payload (content None or "", or content that is
\* empty once whitespace and fence markers are stripped) reaches the caller
\* as the empty-response error.
C3_EmptyPayloadIsEmptyResponse ==
    (Answered /\ (upstream.content.isNone \/ PayloadTokens = <<>>)) =>
        outcome = Raised(EmptyResponse, "infer")

\* C4: a non-empty upstream payload that is not parseable JSON makes
\* analyze_wine_label raise the could-not-parse error, a LabelAnalysisError,
\* and never a raw JSON parse exception.
C4_UnparsableIsLabelAnalysisError ==
    (Answered /\ ~upstream.content.isNone /\ PayloadTokens # <<>>
              /\ PayloadTokens # <<"val">>) =>
        outcome = Raised(UnparsableResponse, "infer")

C4_Witness ==
    /\ Answered
    /\ upstream.content = Content(<<"prose">>)
    /\ outcome.exc = UnparsableResponse

\* The three upstream failures: the class the client raised.
Throttled == Done /\ calls > 0 /\ IsInstance(upstream.raises, "RateLimitError")
Unavailable == Done /\ calls > 0 /\ IsInstance(upstream.raises, "APIConnectionError")
OtherUpstreamError ==
    /\ Done /\ calls > 0
    /\ IsInstance(upstream.raises, "APIError")
    /\ ~IsInstance(upstream.raises, "RateLimitError")
    /\ ~IsInstance(upstream.raises, "APIConnectionError")

\* C5: an upstream rate-limit failure raises the throttled error, and the
\* caller can tell it from the errors of a connectivity failure and of any
\* other upstream-reported error: each of the three errors appears for
\* exactly its own failure, so no two failures map to the same error.  The
\* code has one exception class; the kind of an error is its message.
C5_UpstreamFailuresDistinct ==
    (Done /\ calls > 0) =>
        /\ (outcome.exc = UpstreamThrottled) <=> Throttled
        /\ (outcome.exc = UpstreamUnavailable) <=> Unavailable
        /\ (outcome.exc = UpstreamError) <=> OtherUpstreamError
        /\ Cardinality({UpstreamThrottled, UpstreamUnavailable, UpstreamError}) = 3

C5_Witness == Throttled /\ outcome = Raised(UpstreamThrottled, "infer")

\* C6: with the credential missing or empty, the inference step raises the
\* not-configured error before a client is built and before any request:
\* no upstream request is sent in that invocation.
C6_NotConfiguredBeforeAnyRequest ==
    ~Truthy(api_key) =>
        /\ calls = 0
        /\ ~client_built
        /\ pc # "inferred"
        /\ (Done /\ outcome.at \notin {"validate", "normalize"}) =>
               outcome = Raised(NotConfigured, "infer")

C6_Witness ==
    /\ ~Truthy(api_key)
    /\ Done
    /\ outcome = Raised(NotConfigured, "infer")
    /\ calls = 0 /\ ~client_built

\* C7: one invocation of analyze_wine_label sends at most one upstream
\* request, whatever the outcome; a failed request is not sent again.
C7_AtMostOneRequest == calls <= 1

C7_Witness == Done /\ calls = 1 /\ outcome.exc = UpstreamThrottled

\* C8: in a returned result wine_type is the extracted value when that
\* value is one of red, white, rosé, sparkling, and null for every other
\* extracted value; success is true.
C8_WineTypeCoercion ==
    (Done /\ outcome.status = "returned") =>
        /\ outcome.result.success
        /\ outcome.result.wine_type =
               IF Get(ai_response, "wine_type") \in valid_types
               THEN Get(ai_response, "wine_type")
               ELSE PyNone

\* The resolver ran in this invocation and returned.
Resolved == Done /\ outcome.status = "returned"

\* The final scores of the candidates the resolver fetched, computed
\* candidate by candidate from the extracted name and country.
ScoreOf(i) ==
    FinalScore(Lower(Get(ai_response, "region").s), Get(ai_response, "country"),
               resolver.candidates[i])
CandidateIndexes == 1..Len(resolver.candidates)
Scoring == Truthy(Get(ai_response, "region")) /\ resolver.candidates # <<>>
BestFinalScore ==
    CHOOSE m \in {ScoreOf(i) : i \in CandidateIndexes} :
        \A i \in CandidateIndexes : ScoreOf(i) <= m

\* C9: the resolver returns a match exactly when the best final score over
\* all candidates is at least 80, and null otherwise; the match_score of a
\* match is best score / 100 and lies in [0.80, 1.00].
C9_MatchIffBestScoreAtLeast80 ==
    Resolved =>
        LET m == outcome.result.matched_region IN
        /\ m.found <=> (Scoring /\ BestFinalScore >= 80)
        /\ m.found =>
               /\ m.match_score.num * 100 = BestFinalScore * m.match_score.den
               /\ 80 * m.match_score.den <= 100 * m.match_score.num
               /\ m.match_score.num <= m.match_score.den

\* A match at exactly the threshold, and a catalog whose best score is below it.
C9_Witness ==
    /\ Resolved
    /\ outcome.result.matched_region.found
    /\ BestFinalScore = 80

C9_WitnessBelow ==
    /\ Resolved /\ Scoring
    /\ ~outcome.result.matched_region.found
    /\ BestFinalScore = 77

\* C10: the region returned is the first candidate, in candidate order, with
\* the maximum final score: no candidate scores strictly higher and no
\* earlier candidate scores the same.
C10_FirstOfTheBest ==
    (Resolved /\ outcome.result.matched_region.found) =>
        \E i \in CandidateIndexes :
            /\ resolver.candidates[i].id = outcome.result.matched_region.id
            /\ \A j \in CandidateIndexes : ScoreOf(j) <= ScoreOf(i)
            /\ \A j \in CandidateIndexes : j < i => ScoreOf(j) < ScoreOf(i)

\* Two candidates tie at the maximum and the first of them, which is not the
\* first row of the table, is returned.
C10_Witness ==
    /\ Resolved
    /\ outcome.result.matched_region.found
    /\ Len(resolver.candidates) = 2
    /\ ScoreOf(1) = ScoreOf(2)
    /\ outcome.result.matched_region.id = resolver.candidates[1].id
    /\ resolver.candidates[1].id > resolver.candidates[2].id

\* The country hint of this invocation and the candidates of that country.
Hint == Get(ai_response, "country")
SameCountry(i) == Hint.t = "str" /\ resolver.candidates[i].country = Hint.s

\* The final score the claim gives candidate i: the similarity, plus 10
\* capped at 100 when its country is the hint.
SimilarityOf(i) ==
    Ratio(Lower(Get(ai_response, "region").s), Lower(resolver.candidates[i].name))
ClaimedScore(i) ==
    IF Truthy(Hint) /\ SameCountry(i)
    THEN (IF SimilarityOf(i) + 10 > 100 THEN 100 ELSE SimilarityOf(i) + 10)
    ELSE SimilarityOf(i)

\* The candidates are the rows of the catalog, each exactly once.
CandidatesArePermutation ==
    /\ Len(resolver.candidates) = Len(resolver.rows)
    /\ \A k \in 1..Len(resolver.rows) :
           Cardinality({i \in CandidateIndexes :
                            resolver.candidates[i] = resolver.rows[k]}) = 1

\* C11 as stated: same-country candidates score min(100, similarity + 10),
\* the others their similarity, no candidate is removed, and a candidate of
\* a different country whose final score is strictly higher than every
\* same-country candidate's is the one returned.
C11_OtherCountryHigherIsReturned ==
    (Resolved /\ Scoring /\ Truthy(Hint)) =>
        \A i \in CandidateIndexes :
            (~SameCountry(i)
             /\ \A j \in CandidateIndexes : SameCountry(j) => ClaimedScore(j) < ClaimedScore(i))
            => /\ outcome.result.matched_region.found
               /\ outcome.result.matched_region.id = resolver.candidates[i].id

\* C11 amended: same-country candidates score min(100, similarity + 10), the
\* others their similarity; no candidate is removed by the hint; a candidate
\* of a different country is the one returned when its final score is at
\* least 80, strictly higher than every same-country candidate's, and no
\* other candidate of a different country has a higher score or comes
\* earlier with the same score.
C11_BoostNotFilter ==
    (Resolved /\ Scoring) =>
        /\ CandidatesArePermutation
        /\ \A i \in CandidateIndexes : ClaimedScore(i) <= resolver.best_score
        /\ \E i \in CandidateIndexes :
               resolver.best_score = ClaimedScore(i) \/ resolver.best_score = 0
        /\ \A i \in CandidateIndexes :
            (/\ Truthy(Hint) /\ ~SameCountry(i)
             /\ ClaimedScore(i) >= 80
             /\ \A j \in CandidateIndexes :
                    /\ SameCountry(j) => ClaimedScore(j) < ClaimedScore(i)
                    /\ (~SameCountry(j) /\ j < i) => ClaimedScore(j) < ClaimedScore(i)
                    /\ (~SameCountry(j) /\ j > i) => ClaimedScore(j) <= ClaimedScore(i))
            => /\ outcome.result.matched_region.found
               /\ outcome.result.matched_region.id = resolver.candidates[i].id

\* A candidate of another country beats a boosted candidate of the hinted
\* country and is returned.
C11_Witness ==
    /\ Resolved /\ Scoring /\ Truthy(Hint)
    /\ Len(resolver.candidates) = 2
    /\ SameCountry(1) /\ ~SameCountry(2)
    /\ ClaimedScore(1) = SimilarityOf(1) + 10
    /\ ClaimedScore(2) > ClaimedScore(1)
    /\ outcome.result.matched_region.id = resolver.candidates[2].id

\* The region resolver was called in this invocation.
ResolverCalled ==
    /\ Done /\ ai_response.t = "dict"
    /\ outcome.status = "returned" \/ outcome.at = "assemble"
SuggestedName == Get(ai_response, "region")

\* C12: the region resolver returns null without scoring any candidate when
\* the suggested name is null or empty, and then it does not read the region
\* catalog at all, or when the catalog is empty.
C12_NullWithoutScoring ==
    ResolverCalled =>
        /\ (SuggestedName = PyNone \/ SuggestedName = PyStr(<<>>)) =>
               /\ resolver.reads = 0 /\ resolver.scored = 0
               /\ outcome.status = "returned"
               /\ outcome.result.matched_region = NoMatch
        /\ (resolver.reads > 0 /\ resolver.rows = <<>>) =>
               /\ resolver.scored = 0
               /\ outcome.status = "returned"
               /\ outcome.result.matched_region = NoMatch

\* An empty name is resolved to null while the catalog has regions.
C12_Witness ==
    /\ ResolverCalled /\ SuggestedName = PyStr(<<>>) /\ regions # <<>>
    /\ resolver.reads = 0 /\ outcome.result.matched_region = NoMatch

\* A name is resolved to null against an empty catalog.
C12_WitnessEmptyCatalog ==
    /\ ResolverCalled /\ Truthy(SuggestedName)
    /\ resolver.reads > 0 /\ resolver.rows = <<>>
    /\ outcome.result.matched_region = NoMatch

\* The confidence and raw_text values the model wrote in its response.
GivenConfidence == ai_response.f.confidence
GivenRawText == ai_response.f.raw_text

\* The entry the claim expects for field k: the model's score, or 0.0 for a
\* field the model omitted.
ExpectedConfidence(k) ==
    IF GivenConfidence.t = "dict" /\ GivenConfidence.e[k] # Omitted
    THEN GivenConfidence.e[k]
    ELSE 0

C13_WitnessPartial ==
    /\ Done /\ response.status = 200
    /\ GivenConfidence = ConfidenceDict({"name", "wine_type"}, 90)
    /\ response.body.confidence["name"] = 90
    /\ response.body.confidence["vintage"] = 0

\* C14: in every successful LabelAnalysisResult raw_text is a string, the
\* empty string whenever the model provided no transcript: when the raw_text
\* key is absent and when its value is null.
C14_RawTextIsString ==
    Resolved =>
        /\ outcome.result.raw_text.t = "str"
        /\ (GivenRawText = Absent \/ GivenRawText = PyNone) =>
               outcome.result.raw_text = PyStr(<<>>)

\* C15: the endpoint answers 400 when the pipeline fails with InvalidImage,
\* 422 for any other LabelAnalysisError, and 500 with a fixed generic
\* message for any other exception.
C15_StatusByFailure ==
    (Done /\ outcome.status = "raised") =>
        IF outcome.exc = InvalidImage THEN response.status = 400
        ELSE IF outcome.exc.type = "LabelAnalysisError" THEN response.status = 422
        ELSE response = UnexpectedError

\* The other fields of the result pass the response serializer.
OtherFieldsAccepted ==
    /\ CharFieldValid(outcome.result.country, TRUE, FALSE)
    /\ CharFieldValid(outcome.result.suggested_region_name, TRUE, FALSE)
    /\ outcome.result.confidence.t = "dict"
    /\ CharFieldValid(outcome.result.raw_text, FALSE, TRUE)

\* C16: for each of the four allowed wine_type values extracted from a valid
\* image the endpoint answers 200 with that same wine_type; a value the
\* pipeline accepts is never rejected by the response serializer.
C16_AllowedWineTypeAccepted ==
    (Resolved /\ Get(ai_response, "wine_type") \in valid_types /\ OtherFieldsAccepted) =>
        /\ outcome.result.wine_type = Get(ai_response, "wine_type")
        /\ response.status = 200
        /\ response.body.wine_type = Get(ai_response, "wine_type")

\* _resize_image has been applied to the image of this invocation.
Normalized ==
    /\ image.decodes /\ image.complete
    /\ pc \in {"encoded", "inferred"} \/ (Done /\ outcome.at # "validate")

\* C19: an image with width or height above the configured maximum is resized
\* to dimensions between 1 and the maximum, the longer side equal to the
\* maximum and the shorter side equal to the original shorter side scaled by
\* the same factor within integer rounding; an image within the maximum
\* keeps its dimensions.
C19_ResizeBounds ==
    Normalized =>
        LET max_size == OPENAI_MAX_IMAGE_SIZE
            w == image.w
            h == image.h
            new == ResizeDims(w, h, max_size)
        IN IF w > max_size \/ h > max_size
           THEN /\ new[1] >= 1 /\ new[1] <= max_size
                /\ new[2] >= 1 /\ new[2] <= max_size
                /\ IF w > h
                   THEN /\ new[1] = max_size
                        /\ new[2] * w <= h * max_size
                        /\ h * max_size < (new[2] + 1) * w
                   ELSE /\ new[2] = max_size
                        /\ new[1] * h <= w * max_size
                        /\ w * max_size < (new[1] + 1) * h
                /\ img_size = new
           ELSE new = <<w, h>> /\ img_size = new

\* The stored bottle the last bottle request was about.
RepliedBottle == GetObject(bottles, reply.pk)

\* C20: consume is idempotent: on a bottle whose consumed_at is already set
\* it answers 200 and leaves consumed_at at the date set before; any number
\* of sequential consume calls leaves the stored state one call leaves.
C20_ConsumeIdempotent ==
    (reply.op = "consume" /\ Exists(bottles, reply.pk)) =>
        /\ reply.status = 200
        /\ reply.after = RepliedBottle.consumed_at
        /\ reply.after # NoDate
        /\ reply.before # NoDate => reply.after = reply.before
        /\ ConsumeBottle(RepliedBottle, today) = RepliedBottle

\* A bottle consumed on an earlier day is consumed again and keeps its date.
C20_Witness ==
    /\ reply.op = "consume" /\ reply.status = 200
    /\ reply.before # NoDate /\ reply.before < today
    /\ RepliedBottle.consumed_at = reply.before

\* The persisted state: the rows of the four tables.
persisted == <<wines, bottles, stores, regions>>

\* C17: no invocation of analyze_wine_label, successful or failing, changes
\* persisted state: every step of an invocation leaves the wines, bottles,
\* stores and regions, with all their fields, as they were.
C17_AnalysisWritesNothing ==
    [][(request_vars' # request_vars \/ other' # other) => UNCHANGED persisted]_vars

\* One invocation has returned a matched region and another has failed, and
\* the tables hold the rows they held at the start.
C17_Witness ==
    /\ Done /\ outcome.status = "returned" /\ outcome.result.matched_region.found
    /\ other.pc = "done" /\ other.outcome.status = "raised"
    /\ Len(regions) = 2 /\ bottles = {Bottle(1, 1, NoStore, NoDate)}
    /\ wines = {1} /\ stores = {1}

\* C18: concurrent invocations of analyze_wine_label share no mutable state:
\* with a fixed region catalog, what each invocation returns or raises under
\* any interleaving is what it returns or raises when run alone on the same
\* image and upstream response.
C18_InterleavingInvisible ==
    /\ Done => outcome = RunAlone(image, api_key, upstream, regions)
    /\ other.pc = "done" =>
           other.outcome = RunAlone(other.image, api_key, other.upstream, regions)

\* Two overlapping invocations have both returned, with different results.
C18_Witness ==
    /\ other.overlap
    /\ Done /\ outcome.status = "returned"
    /\ other.pc = "done" /\ other.outcome.status = "returned"
    /\ outcome.result # other.outcome.result
    /\ outcome = RunAlone(image, api_key, upstream, regions)

\* The step is one undo_consume request answered with 200.
UndoConsumeStep ==
    /\ reply'.op = "undo_consume" /\ reply'.status = 200
    /\ today' = today

\* C21: undo_consume sets consumed_at to null on a consumed bottle; on an
\* unconsumed bottle it answers 200 and changes nothing; consume followed by
\* undo_consume on an unconsumed bottle gives back the bottle as it was.
C21_UndoConsume ==
    /\ [](reply.op = "undo_consume" /\ Exists(bottles, reply.pk) =>
             /\ reply.status = 200
             /\ reply.after = NoDate
             /\ RepliedBottle.consumed_at = NoDate)
    /\ [](\A b \in bottles :
             b.consumed_at = NoDate => UndoConsumeBottle(ConsumeBottle(b, today)) = b)
    /\ [][UndoConsumeStep =>
             /\ Exists(bottles, reply'.pk)
             /\ reply'.before = GetObject(bottles, reply'.pk).consumed_at
             /\ bottles' = {IF b.id = reply'.pk THEN [b EXCEPT !.consumed_at = NoDate] ELSE b :
                               b \in bottles}
             /\ reply'.before = NoDate => bottles' = bottles
             /\ (reply.op = "consume" /\ reply.pk = reply'.pk /\ reply.status = 200
                 /\ reply.before = NoDate) =>
                    GetObject(bottles', reply'.pk) =
                        [GetObject(bottles, reply.pk) EXCEPT !.consumed_at = reply.before]
       ]_vars

\* A consumed bottle has been cleared by undo_consume.
C21_Witness ==
    /\ reply.op = "undo_consume" /\ reply.status = 200
    /\ reply.before # NoDate /\ reply.after = NoDate
    /\ RepliedBottle.consumed_at = NoDate

\* undo_consume was answered with 200 on a bottle that was not consumed.
C21_WitnessUnconsumed ==
    /\ reply.op = "undo_consume" /\ reply.status = 200
    /\ reply.before = NoDate /\ RepliedBottle.consumed_at = NoDate

\* The step is one consume or undo_consume request.
BottleActionStep ==
    /\ reply'.op \in {"consume", "undo_consume"}
    /\ today' = today

\* C25: consume and undo_consume addressed to a bottle id that does not
\* exist answer 404 and leave every stored bottle unchanged.
C25_MissingBottle404 ==
    [][BottleActionStep =>
          /\ ~Exists(bottles, reply'.pk) <=> reply'.status = 404
          /\ ~Exists(bottles, reply'.pk) => bottles' = bottles
      ]_vars

\* consume and undo_consume have been answered with 404.
C25_Witness ==
    /\ reply.op = "consume" /\ reply.status = 404 /\ ~Exists(bottles, reply.pk)
    /\ bottles # {}

C25_WitnessUndo ==
    /\ reply.op = "undo_consume" /\ reply.status = 404 /\ ~Exists(bottles, reply.pk)
    /\ bottles # {}

\* The bottles of a wine, and those of them that are not consumed.
BottlesOf(w) == {b \in bottles : b.wine = w}
InStockOf(w) == {b \in bottles : b.wine = w /\ b.consumed_at = NoDate}

\* C22: after any sequence of bottle create, consume, undo_consume and
\* delete operations, bottle_count of a wine is the number of its bottles and
\* in_stock_count the number of its bottles whose consumed_at is null, so
\* 0 <= in_stock_count <= bottle_count; consume and undo_consume never
\* change bottle_count.
C22_CountsMatchStock ==
    /\ [](\A w \in wines :
             /\ bottle_count(bottles, w) = Cardinality(BottlesOf(w))
             /\ in_stock_count(bottles, w) = Cardinality(InStockOf(w))
             /\ 0 <= in_stock_count(bottles, w)
             /\ in_stock_count(bottles, w) <= bottle_count(bottles, w))
    /\ [][BottleActionStep =>
             \A w \in wines : bottle_count(bottles', w) = bottle_count(bottles, w)]_vars

\* A wine has two bottles of which one has just been consumed.
C22_Witness ==
    /\ reply.op = "consume" /\ reply.status = 200 /\ reply.before = NoDate
    /\ \E w \in wines : bottle_count(bottles, w) = 2 /\ in_stock_count(bottles, w) = 1

\* A wine is left without bottles after a bottle was deleted.
C22_WitnessDeleted ==
    /\ reply.op = "destroy" /\ reply.status = 204
    /\ \E w \in wines : bottle_count(bottles, w) = 0 /\ in_stock_count(bottles, w) = 0

\* C23: deleting a wine deletes every bottle of that wine and no bottle of
\* any other wine; after any sequence of creates and deletes every stored
\* bottle refers to an existing wine.
C23_WineDeleteCascades ==
    /\ [](\A b \in bottles : b.wine \in wines)
    /\ [][\A w \in wines \ wines' :
             /\ \A b \in bottles : b.wine = w => ~Exists(bottles', b.id)
             /\ \A b \in bottles : b.wine # w => b \in bottles'
             /\ bottles' \subseteq bottles]_vars

\* A wine was deleted, and a bottle of another wine is still stored while
\* an earlier bottle is gone.
C23_Witness ==
    /\ reply.op = "destroy_wine" /\ reply.status = 204 /\ reply.pk \notin wines
    /\ \E b \in bottles : b.wine # reply.pk /\ b.id > 1
    /\ ~Exists(bottles, 1)

\* C24: deleting a store deletes no bottle: every bottle of the deleted store
\* still exists with store = null and its other fields unchanged, and the
\* bottles of other stores are untouched.
C24_StoreDeleteSetsNull ==
    [][\A st \in stores \ stores' :
          /\ \A b \in bottles :
                b.store = st => [b EXCEPT !.store = NoStore] \in bottles'
          /\ \A b \in bottles : b.store # st => b \in bottles'
          /\ Cardinality(bottles') = Cardinality(bottles)
          /\ \A b \in bottles' : b.store # st]_vars

\* A store was deleted: one of its bottles is stored without a store, a
\* bottle of the other store still has its store.
C24_Witness ==
    /\ reply.op = "destroy_store" /\ reply.status = 204 /\ reply.pk \notin stores
    /\ \E b \in bottles : b.store = NoStore
    /\ \E b \in bottles : b.store \in stores

\* The texts that wrap one JSON value in a fenced code block: whitespace,
\* the opening fence with or without the json tag, whitespace, the value,
\* whitespace, the closing fence, whitespace.
OptionalSpace == {<<>>, <<"ws">>}
FencedContents ==
    {w1 \o <<"fence">> \o tag \o w2 \o <<"val">> \o w3 \o <<"fence">> \o w4 :
        w1 \in OptionalSpace, tag \in {<<>>, <<"json">>}, w2 \in OptionalSpace,
        w3 \in OptionalSpace, w4 \in OptionalSpace}

Fenced(tokens) == Len(tokens) >= 3 /\ tokens \in FencedContents

\* The request of the invocation was answered with a JSON object.
AnsweredObject ==
    /\ calls > 0 /\ upstream.raises = "none" /\ upstream.payload.t = "dict"

\* C26: fence stripping is transparent: an upstream response that wraps a
\* JSON object in a fenced code block (opening fence with or without the json
\* tag, closing fence, surrounding whitespace) is parsed to the same value as
\* the bare object.
C26_FenceTransparent ==
    AnsweredObject =>
        /\ pc = "inferred" =>
              \A t \in FencedContents :
                  ParseResponse(Content(t), upstream.payload) =
                      ParseResponse(Content(<<"val">>), upstream.payload)
        /\ Fenced(upstream.content.tokens) =>
              /\ ai_response = upstream.payload
              /\ outcome.at # "infer"
              /\ Done => outcome.status = "returned"

\* A fenced response with the json tag, and one without it, have been parsed
\* and the invocation has returned a result.
C26_Witness ==
    /\ Done /\ AnsweredObject /\ outcome.status = "returned"
    /\ upstream.content = Content(<<"fence", "json", "ws", "val", "ws", "fence">>)
    /\ ai_response = upstream.payload

C26_WitnessNoTag ==
    /\ Done /\ AnsweredObject /\ outcome.status = "returned"
    /\ upstream.content = Content(<<"ws", "fence", "ws", "val", "ws", "fence", "ws">>)
    /\ ai_response = upstream.payload

\* The image of the invocation passed validation, resizing and encoding.
NormalizationSucceeded ==
    /\ ValidateImage(image) = NoExc
    /\ ResizeImage(image, OPENAI_MAX_IMAGE_SIZE).exc = NoExc
    /\ ImageToBase64(image) = NoExc

\* The request of the invocation was answered and the answer was parsed.
InferenceSucceeded ==
    /\ calls = 1 /\ upstream.raises = "none"
    /\ ParseResponse(upstream.content, upstream.payload).exc = NoExc
    /\ ai_response = upstream.payload

\* The steps of one invocation in the order of the code.
StepOrder ==
    { <<"idle", "opened">>, <<"opened", "encoded">>, <<"encoded", "inferred">>,
      <<"inferred", "done">>,
      <<"idle", "done">>, <<"opened", "done">>, <<"encoded", "done">>,
      <<"idle", "rejected">>, <<"done", "idle">>, <<"rejected", "idle">> }

\* C27: the pipeline steps run in the fixed order normalize, infer, coerce
\* wine_type, resolve region, assemble, and a failure is terminal: the
\* upstream call is made only after normalization succeeded, the region
\* catalog is read only after inference and parsing succeeded, and with an
\* invalid image and a missing credential the error is InvalidImage.
C27_FixedOrderFailureTerminal ==
    /\ []((calls > 0 \/ client_built) => NormalizationSucceeded)
    /\ [](resolver.reads > 0 => NormalizationSucceeded /\ InferenceSucceeded)
    /\ []((pc \notin {"idle", "rejected"} /\ ValidateImage(image) # NoExc
           /\ ~Truthy(api_key)) =>
              /\ outcome = Raised(InvalidImage, "validate")
              /\ calls = 0 /\ resolver.reads = 0)
    /\ [](outcome.status = "raised" =>
              /\ pc = "done"
              /\ outcome.at \in {"validate", "normalize"} => calls = 0 /\ ~client_built
              /\ outcome.at \in {"validate", "normalize", "infer"} => resolver.reads = 0)
    /\ [][/\ pc' # pc => <<pc, pc'>> \in StepOrder
          /\ (outcome.status = "raised" /\ pc' # "idle") => UNCHANGED request_vars
       ]_vars

\* An invalid image met a missing credential and InvalidImage was raised.
C27_Witness ==
    /\ Done /\ ValidateImage(image) # NoExc /\ ~Truthy(api_key)
    /\ outcome = Raised(InvalidImage, "validate")

\* The catalog has been read at the end of a complete run.
C27_WitnessRead ==
    /\ Done /\ resolver.reads > 0 /\ outcome.status = "returned" /\ calls = 1

\* Normalization failed and no upstream call was made.
C27_WitnessNormalize ==
    /\ Done /\ outcome.status = "raised" /\ outcome.at = "normalize" /\ calls = 0

\* Handler h ends its consume or undo_consume request in this step.
Writes(h) == inflight[h] # NoRequest /\ inflight'[h] = NoRequest

\* The row with this pk, all columns but consumed_at.
OtherColumns(b) == [b EXCEPT !.consumed_at = NoDate]

\* C29: consume and undo_consume write only the consumed_at field of the
\* addressed bottle: its wine, store, price and purchase_date, and every
\* other bottle, wine and store, are unchanged, and a concurrent update of
\* another field of the same bottle is not overwritten by them.
C29_OnlyConsumedAtWritten ==
    [][\A h \in Handlers : Writes(h) =>
          /\ wines' = wines /\ stores' = stores
          /\ {OtherColumns(b) : b \in bottles'} = {OtherColumns(b) : b \in bottles}
          /\ \A b \in bottles : b.id # inflight[h].bottle.id => b \in bottles'
          /\ Cardinality(bottles') = Cardinality(bottles)
      ]_vars

\* consume has written consumed_at of a bottle whose price was updated after
\* a request still in flight read it; the updated price is stored.
C29_Witness ==
    /\ reply.op = "consume" /\ reply.status = 200
    /\ reply.before = NoDate /\ reply.after # NoDate
    /\ Exists(bottles, reply.pk)
    /\ RepliedBottle.consumed_at = reply.after
    /\ RepliedBottle.price # NoPrice
    /\ \E h \in Handlers :
          /\ inflight[h].bottle.id = reply.pk
          /\ inflight[h].bottle.price = NoPrice
          /\ inflight[h].bottle.consumed_at = NoDate

\* C30: once consume has set a bottle's consumed_at, no consume call changes
\* it to a different date, including a consume call on the same bottle that
\* read the bottle before the first one wrote.
C30_ConsumeKeepsDate ==
    [][\A h \in Handlers : (Writes(h) /\ inflight[h].op = "consume") =>
          \A b \in bottles : b.consumed_at # NoDate =>
              \A b2 \in bottles' : b2.id = b.id => b2.consumed_at = b.consumed_at
      ]_vars

\* The sequence holds each row of the catalog state exactly once, and nothing
\* else.
IsPermutationOf(candidates, rows) ==
    /\ Len(candidates) = Len(rows)
    /\ \A k \in 1..Len(rows) :
           Cardinality({i \in 1..Len(candidates) : candidates[i] = rows[k]}) = 1

\* The regions of the hinted country come before all others.
HintedFirst(candidates, country_code) ==
    \A i, j \in 1..Len(candidates) :
        (CountryMatches(candidates[i], country_code)
         /\ ~CountryMatches(candidates[j], country_code)) => i < j

\* The catalog states that existed while the resolver call ran.
Moments == {moments[k] : k \in 1..Len(moments)}

\* C28: with a country hint, the candidate sequence the resolver scores is a
\* permutation of the region catalog as it stood at one moment of the call,
\* with all regions of the hinted country before all others, also when other
\* requests create or delete regions or change a region's country meanwhile.
C28_CandidatesAreSnapshot ==
    (pc = "done" /\ resolver.reads = 2) =>
        /\ \E rows \in Moments : IsPermutationOf(resolver.candidates, rows)
        /\ HintedFirst(resolver.candidates, Get(ai_response, "country"))

====
